---- MODULE Spec2Model ----
(***************************************************************************)
(* Model of the visual-gpt grading pipeline: submission discovery          *)
(* (scanner.js), the four variants of evaluateStudentsWithVision           *)
(* (scanner.js:183, evaluator-02.js:123, evaluator-03.js:125,              *)
(* evaluator-03.js:305) and the POST /evaluate handler (server.js:38).     *)
(*                                                                         *)
(* Text is modelled as a sequence of one-character strings where the code  *)
(* inspects characters, and as a sequence of tokens where it only          *)
(* concatenates.                                                           *)
(***************************************************************************)
EXTENDS Integers, Sequences, FiniteSets, TLC

\* ------------------------------------------------------------------ bounds
\* Largest number of entries in the submissions root.
MaxEntries == 2
\* Longest run of white space around the parts of an oracle reply.
MaxSpaces == 1
\* Largest number of files beneath one entry of the submissions root.
MaxFiles == 2

\* ------------------------------------------------------- generic helpers
Range(s) == {s[i] : i \in 1..Len(s)}

\* Array.prototype.join(', ') over a list of tokens.
RECURSIVE Join(_)
Join(flags) ==
    IF Len(flags) = 0 THEN <<>>
    ELSE IF Len(flags) = 1 THEN <<flags[1]>>
    ELSE <<flags[1], ", ">> \o Join(Tail(flags))

\* A value that may be undefined (err.message of a thrown value).
Undefined == [def |-> FALSE]
Defined(text) == [def |-> TRUE, text |-> text]

\* --------------------------------------------------------- the variants
\* "scanner"  : scanner.js:183-261      (static rubric, fixed probes)
\* "ev02"     : evaluator-02.js:123-206 (oracle rubric)
\* "ev03a"    : evaluator-03.js:125-207 (adds compareWithExpected)
\* "ev03b"    : evaluator-03.js:305-387 (clone, reference page, /evaluate)
Variants == {"scanner", "ev02", "ev03a", "ev03b"}

\* --------------------------------------------- discovery (scanner.js:35)
\* A directory entry of the submissions root.  htmlFiles and cssFiles are
\* what globby returns beneath it, in traversal order.  The entries of a run
\* are student folders and hidden directories (a clone always has .git);
\* plain files are among the roots handed to scanStudentFolders alone.
EntryNames == << <<"a">>, <<"b">>, <<"c">>, <<"d">> >>

HiddenName(n) == <<".">> \o n

EntriesAt(i) ==
    {[name |-> EntryNames[i], isDir |-> TRUE, htmlFiles |-> h, cssFiles |-> c] :
        h \in {<<>>, <<"index.html">>}, c \in {<<>>, <<"style.css">>}}
    \cup {[name |-> HiddenName(EntryNames[i]), isDir |-> TRUE,
           htmlFiles |-> <<>>, cssFiles |-> <<>>]}

\* All listings of the root with at most MaxEntries entries.
Listings ==
    UNION {{l \in [1..n -> UNION {EntriesAt(i) : i \in 1..n}] :
                \A i \in 1..n : l[i] \in EntriesAt(i)} : n \in 0..MaxEntries}

\* student.startsWith('.')
StartsWithDot(name) == Len(name) > 0 /\ name[1] = "."

\* The flags array of one entry (scanner.js:62-64).
FlagsOf(e) ==
    (IF Len(e.htmlFiles) = 0 THEN <<"Missing HTML">> ELSE <<>>)
    \o (IF Len(e.cssFiles) = 0 THEN <<"Missing CSS">> ELSE <<>>)

\* A record whose entry point is the last markup file found.
StudentRecordLastMarkup(e) ==
    [name |-> e.name,
     html |-> IF Len(e.htmlFiles) > 0 THEN Defined(e.htmlFiles[Len(e.htmlFiles)])
              ELSE Undefined,
     css |-> e.cssFiles,
     flags |-> FlagsOf(e),
     basePath |-> <<"students_project", e.name>>]
\* The record pushed for one entry (scanner.js:67-73).  html is the first
\* markup file or null.
StudentRecord(e) ==
    [name |-> e.name,
     html |-> IF Len(e.htmlFiles) > 0 THEN Defined(e.htmlFiles[1]) ELSE Undefined,
     css |-> e.cssFiles,
     flags |-> FlagsOf(e),
     basePath |-> <<"students_project", e.name>>]

\* scanStudentFolders over a readable root (scanner.js:40-76).
RECURSIVE scanStudentFolders(_)
scanStudentFolders(listing) ==
    IF Len(listing) = 0 THEN <<>>
    ELSE LET e == listing[1]
             rest == scanStudentFolders(Tail(listing))
         IN IF StartsWithDot(e.name) THEN rest
            ELSE IF ~e.isDir THEN rest
            ELSE <<StudentRecord(e)>> \o rest

\* globby(['**/*.ext'], {cwd, absolute: true}): the files beneath the
\* directory, at any depth, whose name ends in the extension, in the order
\* the walk meets them.
RECURSIVE globby(_, _)
globby(files, ext) ==
    IF Len(files) = 0 THEN <<>>
    ELSE (IF files[1].ext = ext THEN <<files[1]>> ELSE <<>>) \o globby(Tail(files), ext)

\* An entry of the root given by the files beneath it, as the loop body sees
\* it after the two globby calls.
Globbed(t) ==
    [name |-> t.name, isDir |-> t.isDir, htmlFiles |-> globby(t.files, "html"),
     cssFiles |-> globby(t.files, "css")]

\* ------------------------------------- rubric normalisation (oracle reply)
\* A criterion as the oracle returns it.  checks may be absent.
Criterion(d, w, t, c) == [description |-> d, weight |-> w, type |-> t, checks |-> c]
NoChecks == [def |-> FALSE]
Checks(list) == [def |-> TRUE, list |-> list]
Check(sel) == [selector |-> sel]

\* Selectors: two the engine accepts, one it rejects, and the text a
\* template literal prints for a check that has no selector.
InvalidSelector == "input[["
MissingSelector == "undefined"

\* Characters, and matching that ignores letter case (the i flag).
ToLower(c) ==
    LET upper == <<"A", "B", "C", "D", "E", "F", "G", "H", "I", "J", "K", "L", "M",
                   "N", "O", "P", "Q", "R", "S", "T", "U", "V", "W", "X", "Y", "Z">>
        lower == <<"a", "b", "c", "d", "e", "f", "g", "h", "i", "j", "k", "l", "m",
                   "n", "o", "p", "q", "r", "s", "t", "u", "v", "w", "x", "y", "z">>
    IN IF \E i \in 1..Len(upper) : upper[i] = c
       THEN lower[CHOOSE i \in 1..Len(upper) : upper[i] = c]
       ELSE c
ToLowerCase(text) == [i \in 1..Len(text) |-> ToLower(text[i])]

Digits == <<"0", "1", "2", "3", "4", "5", "6", "7", "8", "9">>
IsDigit(c) == \E i \in 1..Len(Digits) : Digits[i] = c
\* \s
IsSpace(c) == c \in {" ", "\n", "\t"}

\* text has pattern at position i, letter case ignored
MatchesAt(text, i, pattern) ==
    /\ i >= 1
    /\ i + Len(pattern) - 1 <= Len(text)
    /\ \A k \in 1..Len(pattern) : ToLower(text[i + k - 1]) = ToLower(pattern[k])

\* String.prototype.includes on lower-cased text, and /pattern/i.test
Includes(text, pattern) == \E i \in 1..Len(text) : MatchesAt(text, i, pattern)

\* A parsed JSON value: an array of criteria, or something else.
JArray(items) == [isArray |-> TRUE, items |-> items]
JOther == [isArray |-> FALSE]

\* The oracle's reply is a sequence of tokens: a fence, a language tag (the
\* letters that follow a fence), white space, a JSON text, or text that is
\* not JSON.
TFence == [k |-> "fence"]
TTag(text) == [k |-> "tag", text |-> text]
TSpace == [k |-> "ws"]
TJson(v) == [k |-> "json", value |-> v]
TText == [k |-> "text"]

\* String.prototype.trim
RECURSIVE TrimLeft(_)
TrimLeft(s) == IF Len(s) > 0 /\ s[1] = TSpace THEN TrimLeft(Tail(s)) ELSE s
RECURSIVE TrimRight(_)
TrimRight(s) ==
    IF Len(s) > 0 /\ s[Len(s)] = TSpace THEN TrimRight(SubSeq(s, 1, Len(s) - 1)) ELSE s
Trim(s) == TrimRight(TrimLeft(s))

\* .replace(/^```json/i, ''): the four letters are removed in any letter
\* case; what follows them in a longer tag stays.
JsonTag == <<"j", "s", "o", "n">>
\* The same replacement without the i flag.
StripFenceJsonCaseSensitive(s) ==
    IF Len(s) >= 2 /\ s[1] = TFence /\ s[2].k = "tag" /\ Len(s[2].text) >= Len(JsonTag)
       /\ SubSeq(s[2].text, 1, Len(JsonTag)) = JsonTag
    THEN (IF Len(s[2].text) = Len(JsonTag) THEN <<>>
          ELSE <<TTag(SubSeq(s[2].text, Len(JsonTag) + 1, Len(s[2].text)))>>)
         \o SubSeq(s, 3, Len(s))
    ELSE s
StripFenceJson(s) ==
    IF Len(s) >= 2 /\ s[1] = TFence /\ s[2].k = "tag" /\ MatchesAt(s[2].text, 1, JsonTag)
    THEN (IF Len(s[2].text) = Len(JsonTag) THEN <<>>
          ELSE <<TTag(SubSeq(s[2].text, Len(JsonTag) + 1, Len(s[2].text)))>>)
         \o SubSeq(s, 3, Len(s))
    ELSE s
\* .replace(/^```/, '')
StripFenceOpen(s) == IF Len(s) >= 1 /\ s[1] = TFence THEN Tail(s) ELSE s
\* .replace(/```$/, '')
StripFenceClose(s) ==
    IF Len(s) >= 1 /\ s[Len(s)] = TFence THEN SubSeq(s, 1, Len(s) - 1) ELSE s

\* JSON.parse: succeeds on exactly one JSON text (white space around it is
\* allowed), throws on anything else.
JsonParse(s) ==
    LET t == Trim(s)
    IN IF Len(t) = 1 /\ t[1].k = "json"
       THEN [ok |-> TRUE, value |-> t[1].value]
       ELSE [ok |-> FALSE]

\* parseRubricWithSelectors after the oracle has answered
\* (evaluator-03.js:260-267).
parseRubricWithSelectors(content) ==
    LET raw == Trim(content)
        cleaned == Trim(StripFenceClose(StripFenceOpen(StripFenceJson(raw))))
        parsed == JsonParse(cleaned)
    IN IF parsed.ok THEN parsed.value ELSE JArray(<<>>)

\* parseRubricText (scanner.js:126-135): always a list of
\* {description, weight}; it has no type and no checks.
parseRubricText ==
    JArray(<<[description |-> "hero", weight |-> 2],
             [description |-> "nav icons", weight |-> 1]>>)

\* ---------------------------------- structural checks (runDynamicDomChecks)
\* The loaded page as the checks see it: whether its frame got detached,
\* and which of the selectors match an element.
Pages ==
    {[detached |-> FALSE, present |-> sels] : sels \in SUBSET {"input[type=checkbox]", "footer"}}
    \cup {[detached |-> TRUE, present |-> {}]}

\* page.$(selector): "throw", or whether an element was found.
PageQuery(page, sel) ==
    IF sel = MissingSelector \/ sel = InvalidSelector \/ page.detached THEN "throw"
    ELSE IF sel \in page.present THEN "found" ELSE "null"

\* results[key] = value on a JS object: a new key is appended, an existing
\* key keeps its place.
SetKey(results, key, value) ==
    IF \E i \in 1..Len(results) : results[i].key = key
    THEN [i \in 1..Len(results) |->
            IF results[i].key = key THEN [key |-> key, passed |-> value] ELSE results[i]]
    ELSE Append(results, [key |-> key, passed |-> value])

\* `${item.description} :: ${check.selector}`
CheckKey(item, check) == <<item.description, " :: ", check.selector>>

\* The checks the two loops visit, in order (evaluator-03.js:273-275).
RECURSIVE VisitedChecks(_)
VisitedChecks(items) ==
    IF Len(items) = 0 THEN <<>>
    ELSE LET item == items[1]
         IN (IF item.type = "dom" /\ item.checks.def
             THEN [i \in 1..Len(item.checks.list) |->
                      [item |-> item, check |-> item.checks.list[i]]]
             ELSE <<>>)
            \o VisitedChecks(Tail(items))

\* The inner loop's body without its try/catch: a throwing page.$ leaves
\* the function.
UnguardedCheck(acc, page, v) ==
    LET q == PageQuery(page, v.check.selector)
    IN IF acc.threw THEN acc
       ELSE IF q = "throw" THEN [acc EXCEPT !.threw = TRUE, !.calls = acc.calls + 1]
       ELSE [threw |-> FALSE,
             results |-> SetKey(acc.results, CheckKey(v.item, v.check), q = "found"),
             calls |-> acc.calls + 1]

\* The body of the inner loop with its try/catch (evaluator-03.js:276-282).
\* calls counts the page.$ calls made.
GuardedCheck(acc, page, v) ==
    LET q == PageQuery(page, v.check.selector)
    IN IF acc.threw THEN acc
       ELSE [threw |-> FALSE,
             results |-> SetKey(acc.results, CheckKey(v.item, v.check), q = "found"),
             calls |-> acc.calls + 1]

RECURSIVE FoldChecks(_, _, _)
FoldChecks(acc, page, visits) ==
    IF Len(visits) = 0 THEN acc
    ELSE FoldChecks(GuardedCheck(acc, page, visits[1]), page, Tail(visits))

\* runDynamicDomChecks(page, rubric) (evaluator-03.js:271-287).  Iterating a
\* value that is not a list throws.
runDynamicDomChecks(page, rubric) ==
    IF ~rubric.isArray THEN [threw |-> TRUE, results |-> <<>>, calls |-> 0]
    ELSE FoldChecks([threw |-> FALSE, results |-> <<>>, calls |-> 0], page,
                    VisitedChecks(rubric.items))

\* ------------------------------------------- parsing the oracle's judgment
\* first position >= i that does not satisfy the class (Len+1 at the end)
RECURSIVE SkipDigits(_, _)
SkipDigits(text, i) ==
    IF i <= Len(text) /\ IsDigit(text[i]) THEN SkipDigits(text, i + 1) ELSE i
RECURSIVE SkipSpaces(_, _)
SkipSpaces(text, i) ==
    IF i <= Len(text) /\ IsSpace(text[i]) THEN SkipSpaces(text, i + 1) ELSE i

\* A number: integer part and fractional digits without trailing zeros.
Number(int, frac) == [int |-> int, frac |-> frac]
Zero == Number(0, <<>>)
RECURSIVE DigitsToInt(_)
DigitsToInt(ds) ==
    IF Len(ds) = 0 THEN 0
    ELSE DigitsToInt(SubSeq(ds, 1, Len(ds) - 1)) * 10 + ((CHOOSE i \in 1..Len(Digits) : Digits[i] = ds[Len(ds)]) - 1)
RECURSIVE DropTrailingZeros(_)
DropTrailingZeros(ds) ==
    IF Len(ds) > 0 /\ ds[Len(ds)] = "0" THEN DropTrailingZeros(SubSeq(ds, 1, Len(ds) - 1))
    ELSE ds
\* parseFloat / parseInt of a capture made of digits and at most one "."
ParseFloat(tok) ==
    LET e == SkipDigits(tok, 1)
    IN Number(DigitsToInt(SubSeq(tok, 1, e - 1)),
              IF e < Len(tok) THEN DropTrailingZeros(SubSeq(tok, e + 1, Len(tok))) ELSE <<>>)

\* ".*?" followed by a digit, from position i: the first digit that is
\* reached without crossing a line end, or 0.
RECURSIVE LazyToDigit(_, _)
LazyToDigit(text, i) ==
    IF i > Len(text) THEN 0
    ELSE IF IsDigit(text[i]) THEN i
    ELSE IF text[i] = "\n" THEN 0
    ELSE LazyToDigit(text, i + 1)

\* (\d+(\.\d+)?) at position j, where text[j] is a digit
NumberCapture(text, j) ==
    LET e == SkipDigits(text, j)
        f == IF e + 1 <= Len(text) /\ text[e] = "." /\ IsDigit(text[e + 1])
             THEN SkipDigits(text, e + 1) ELSE e
    IN SubSeq(text, j, f - 1)

\* content.match(/Score.*?(\d+(\.\d+)?)/i): the capture of the leftmost
\* match, or no match (evaluator-03.js:367, evaluator-02.js:183).
ScoreWord == <<"s", "c", "o", "r", "e">>
ScoreMatchAt(text, i) ==
    IF MatchesAt(text, i, ScoreWord) THEN LazyToDigit(text, i + Len(ScoreWord)) ELSE 0
scoreMatch(text) ==
    LET starts == {i \in 1..Len(text) : ScoreMatchAt(text, i) > 0}
    IN IF starts = {} THEN [found |-> FALSE]
       ELSE LET i == CHOOSE k \in starts : \A m \in starts : k <= m
            IN [found |-> TRUE, capture |-> NumberCapture(text, ScoreMatchAt(text, i))]
\* scoreMatch ? parseFloat(scoreMatch[1]) : 0
totalScore(text) ==
    LET m == scoreMatch(text) IN IF m.found THEN ParseFloat(m.capture) ELSE Zero

\* content.match(/Score\s*out\s*of\s*\d+\s*:\s*(\d+)/i) (scanner.js:237)
ScoreOutOfAt(text, i) ==
    IF ~MatchesAt(text, i, ScoreWord) THEN 0
    ELSE LET a == SkipSpaces(text, i + Len(ScoreWord))
         IN IF ~MatchesAt(text, a, <<"o", "u", "t">>) THEN 0
            ELSE LET b == SkipSpaces(text, a + 3)
                 IN IF ~MatchesAt(text, b, <<"o", "f">>) THEN 0
                    ELSE LET c == SkipSpaces(text, b + 2)
                             d == SkipDigits(text, c)
                             e == SkipSpaces(text, d)
                         IN IF d = c \/ e > Len(text) \/ text[e] # ":" THEN 0
                            ELSE LET g == SkipSpaces(text, e + 1)
                                 IN IF g <= Len(text) /\ IsDigit(text[g]) THEN g ELSE 0
scoreMatchOutOf(text) ==
    LET starts == {i \in 1..Len(text) : ScoreOutOfAt(text, i) > 0}
    IN IF starts = {} THEN [found |-> FALSE]
       ELSE LET i == CHOOSE k \in starts : \A m \in starts : k <= m
                g == ScoreOutOfAt(text, i)
            IN [found |-> TRUE, capture |-> SubSeq(text, g, SkipDigits(text, g) - 1)]
\* scoreMatch ? parseInt(scoreMatch[1]) : 0
totalScoreOutOf(text) ==
    LET m == scoreMatchOutOf(text) IN IF m.found THEN ParseFloat(m.capture) ELSE Zero

\* /manual correction/i.test(response) (evaluator-03.js:369)
ManualCorrectionWords == <<"m", "a", "n", "u", "a", "l", " ", "c", "o", "r", "r", "e", "c", "t", "i", "o", "n">>
\* The same test without the i flag.
needsManualCorrectionCaseSensitive(text) ==
    \E i \in 1..Len(text) :
       /\ i + Len(ManualCorrectionWords) - 1 <= Len(text)
       /\ SubSeq(text, i, i + Len(ManualCorrectionWords) - 1) = ManualCorrectionWords
needsManualCorrection(text) == Includes(text, ManualCorrectionWords)

\* compareWithExpected's verdict on the comparison reply
\* (evaluator-03.js:119-121)
DifferentWord == <<"d", "i", "f", "f", "e", "r", "e", "n", "t">>
ManualFlagOf(reply) ==
    IF Includes(ToLowerCase(reply), DifferentWord)
    THEN "Needs manual correction (visual diff)"
    ELSE "No visual difference"

\* What the try block computes from the oracle's reply: the score, the
\* feedback and, in evaluator-03.js:369, the manual-correction test.
\* A try block that keeps the reply only when it found a score in it.
JudgmentOfScoredReply(v, reply) ==
    [totalScore |-> IF v = "scanner" THEN totalScoreOutOf(reply) ELSE totalScore(reply),
     feedback |-> IF (IF v = "scanner" THEN scoreMatchOutOf(reply) ELSE scoreMatch(reply)).found
                  THEN reply ELSE <<>>,
     manualCorrection |-> needsManualCorrection(reply)]
Judgment(v, reply) ==
    [totalScore |-> IF v = "scanner" THEN totalScoreOutOf(reply) ELSE totalScore(reply),
     feedback |-> reply,
     manualCorrection |-> needsManualCorrection(reply)]

\* Replies of the judgment oracle explored by the run.
ReplyScored == <<"S", "c", "o", "r", "e", ":", " ", "7", ".", "5">>
ReplyManual == <<"n", "o", " ", "m", "a", "r", "k", "s", "\n", "m", "a", "n", "u", "a", "l", " ", "c", "o", "r", "r", "e", "c", "t", "i", "o", "n">>
OracleReplies == {ReplyScored, ReplyManual}
\* Replies of the comparison oracle.
CompareReplies == {<<"D", "I", "F", "F", "E", "R", "E", "N", "T">>, <<"S", "I", "M", "I", "L", "A", "R">>}

\* ------------------------------------------------------ the run's state
VARIABLES
    variant,       \* which evaluateStudentsWithVision runs
    entry,         \* "http" (POST /evaluate) or "cli"
    body,          \* req.body: which of repoUrl, rubric, expectedUrl it carries
    student_root,  \* the students_project directory on disk
    pc,            \* position of the run
    rubric,        \* the parsed rubric
    rubricCalls,   \* normalisation requests sent to the oracle
    students,      \* what scanStudentFolders returned
    idx,           \* index of the student the loop is at
    results,       \* the results array
    browser,       \* "none", "open", "closed"
    pages,         \* the pages that are open
    page,          \* the page the current student's navigation loaded
    local,         \* the loop body's locals and the statements of the try block that completed
    domResults,    \* the mapping runDynamicDomChecks returned for this student
    acquired,      \* students for which context.newPage() was called
    navigated,     \* students for which page.goto() was called
    oracleCalls,   \* students for which the judgment request was sent, in order
    report,        \* final_scores.json
    thrown,        \* the error the run rejected with
    response,      \* what the /evaluate handler answered
    call,          \* the pure function under test: its argument and what it returned
    mounted,       \* the static routes the server mounted when it started
    runs           \* the /evaluate requests in flight at the same time, each with its own run

vars == <<variant, entry, body, student_root, pc, rubric, rubricCalls, students, idx,
          results, browser, pages, page, local, domResults, acquired, navigated,
          oracleCalls, report, thrown, response, call, mounted, runs>>

\* The directory is missing, or holds a listing.
MissingDir == [exists |-> FALSE]
Dir(listing) == [exists |-> TRUE, listing |-> listing]

\* What a previous run left in students_project.
PreviousListing ==
    <<[name |-> <<"o">>, isDir |-> TRUE, htmlFiles |-> <<"index.html">>,
       cssFiles |-> <<"style.css">>]>>

\* encodeURIComponent: letters stay, a space becomes %20.
encodeURIComponent(name) == [i \in 1..Len(name) |-> IF name[i] = " " THEN "%20" ELSE name[i]]
\* `/student/${encodeURIComponent(student.name)}`
StudentRoute(name) == <<"/student/">> \o encodeURIComponent(name)

\* mountStudentFolders (server.js:20-30), awaited once by the callback of
\* app.listen: a static route for each scanned student that has markup.  On
\* a missing root the scan throws and nothing is mounted.
mountStudentFolders(root) ==
    IF ~root.exists THEN {}
    ELSE {[route |-> StudentRoute(st.name), basePath |-> st.basePath] :
            st \in {x \in Range(scanStudentFolders(root.listing)) :
                       "Missing HTML" \notin Range(x.flags)}}

\* express.static(basePath) answering a request for the route itself: the
\* index.html of the directory as it is on disk at the time of the request,
\* or nothing (the request falls through to a 404).
ServedFile(root, r) ==
    IF ~root.exists THEN Undefined
    ELSE LET dirs == {e \in Range(root.listing) :
                        e.isDir /\ <<"students_project", e.name>> = r.basePath
                        /\ "index.html" \in Range(e.htmlFiles)}
         IN IF dirs = {} THEN Undefined ELSE Defined("index.html")

\* Messages of thrown errors; a thrown value need not carry a message (the
\* run explores that for the navigation).
TimeoutMessage == Defined(<<"page.goto: Timeout 15000ms exceeded.">>)
ErrorMessage == Defined(<<"failed">>)
ThrownMessages == {ErrorMessage, Undefined}

NoResponse == [status |-> 0]
NoReport == [written |-> FALSE, writes |-> 0]
NoLocal == [inTry |-> FALSE]
NoPage == [loaded |-> FALSE]
NotThrown == [is |-> FALSE]
NoCall == [fn |-> "none"]
NoRuns == <<>>

\* Replies of the oracle to the normalisation request.
RubricOne ==
    JArray(<<Criterion("Checkbox present", 2, "dom",
                       Checks(<<Check("input[type=checkbox]"), Check(InvalidSelector)>>)),
             Criterion("Footer has copyright", 1, "visual", NoChecks)>>)
RubricTwo ==
    JArray(<<Criterion("Form fields", 1, "dom",
                       Checks(<<Check(MissingSelector), Check("footer")>>)),
             Criterion("Hover effect", 1, "behavior", Checks(<<Check("footer")>>)),
             Criterion("Form fields", 1, "dom", Checks(<<Check("footer")>>))>>)
RubricReplies ==
    {<<TJson(RubricOne)>>,
     <<TFence, TSpace, TJson(RubricTwo), TFence>>,
     <<TFence, TTag(JsonTag), TSpace, TJson(RubricOne), TSpace, TFence>>,
     <<TText>>,
     <<TJson(JOther)>>}

Init ==
    /\ variant \in Variants
    /\ entry \in IF variant = "ev03b" THEN {"http", "cli"} ELSE {"cli"}
    /\ body \in IF entry = "http"
                THEN [repoUrl : BOOLEAN, rubric : BOOLEAN, expectedUrl : BOOLEAN]
                ELSE IF variant = "ev03b"
                THEN {[repoUrl |-> TRUE, rubric |-> TRUE, expectedUrl |-> TRUE]}
                ELSE {[repoUrl |-> FALSE, rubric |-> FALSE, expectedUrl |-> FALSE]}
    /\ student_root \in IF variant = "ev03b"
                        THEN (IF entry = "http" THEN {Dir(PreviousListing)} ELSE {MissingDir})
                        ELSE {MissingDir} \cup {Dir(l) : l \in Listings}
    /\ pc = IF entry = "http" THEN "request"
            ELSE IF variant = "ev03b" THEN "start" ELSE "parseRubric"
    /\ rubric = JArray(<<>>)
    /\ rubricCalls = 0
    /\ students = <<>>
    /\ idx = 0
    /\ results = <<>>
    /\ browser = "none"
    /\ pages = {}
    /\ page = NoPage
    /\ local = NoLocal
    /\ domResults = <<>>
    /\ acquired = {}
    /\ navigated = {}
    /\ oracleCalls = <<>>
    /\ report = NoReport
    /\ thrown = NotThrown
    /\ response = NoResponse
    /\ call = NoCall
    /\ mounted = mountStudentFolders(student_root)
    /\ runs = NoRuns

\* The run rejects with an error: nothing else of the function executes.
\* at is the position the error was thrown from.
Reject(message) ==
    /\ pc' = "rejected"
    /\ thrown' = [is |-> TRUE, message |-> message, at |-> pc]

\* ------------------------------------------- POST /evaluate (server.js:38)
\* Validation of the body (server.js:39-44).
Evaluate ==
    /\ pc = "request"
    /\ IF ~body.repoUrl \/ ~body.rubric
       THEN /\ response' = [status |-> 400,
                            error |-> "Missing required fields: repoUrl and rubric"]
            /\ pc' = "responded"
       ELSE /\ pc' = "start"
            /\ UNCHANGED response
    /\ UNCHANGED <<runs, mounted, call, variant, entry, body, student_root, rubric, rubricCalls, students, idx,
                   results, browser, pages, page, local, domResults, acquired, navigated,
                   oracleCalls, report, thrown>>

\* What evaluateStudentsWithVision resolves to: the function has no return
\* statement (evaluator-03.js:305-387).
ReturnValue(res) == Undefined

\* res.json(...) after the awaited run settled (server.js:47-55).  JSON
\* serialisation drops a property whose value is undefined.
Respond ==
    /\ entry = "http"
    /\ \/ /\ pc = "returned"
          /\ response' = [status |-> 200, success |-> TRUE, results |-> ReturnValue(results)]
       \/ /\ pc = "rejected"
          /\ response' = [status |-> 500, error |-> "Evaluation failed",
                          details |-> thrown.message]
    /\ pc' = "responded"
    /\ UNCHANGED <<runs, mounted, call, variant, entry, body, student_root, rubric, rubricCalls, students, idx,
                   results, browser, pages, page, local, domResults, acquired, navigated,
                   oracleCalls, report, thrown>>

\* ---------------------------------------------------------------- set-up
\* cloneGitRepo (evaluator-03.js:238-244): an existing directory is removed,
\* then git clone materialises the repository or fails.  The removal itself
\* may throw and leave the directory in place.
cloneGitRepo ==
    /\ pc = "start"
    /\ variant = "ev03b"
    /\ \/ \E listing \in Listings :
            /\ student_root' = Dir(listing)
            /\ pc' = "parseRubric"
            /\ UNCHANGED thrown
       \/ /\ student_root' = MissingDir
          /\ Reject(ErrorMessage)
       \/ /\ student_root.exists
          /\ student_root' = student_root
          /\ Reject(ErrorMessage)
    /\ UNCHANGED <<runs, mounted, call, variant, entry, body, rubric, rubricCalls, students, idx,
                   results, browser, pages, page, local, domResults, acquired, navigated,
                   oracleCalls, report, response>>

\* The rubric: parseRubricText in scanner.js, the oracle elsewhere.
ParseRubric ==
    /\ pc = "parseRubric"
    /\ IF variant = "scanner"
       THEN /\ rubric' = parseRubricText
            /\ pc' = "scan"
            /\ UNCHANGED <<rubricCalls, thrown>>
       ELSE /\ rubricCalls' = rubricCalls + 1
            /\ \/ \E reply \in RubricReplies :
                    /\ rubric' = parseRubricWithSelectors(reply)
                    /\ pc' = "scan"
                    /\ UNCHANGED thrown
               \/ /\ Reject(ErrorMessage)
                  /\ UNCHANGED rubric
    /\ UNCHANGED <<runs, mounted, call, variant, entry, body, student_root, students, idx,
                   results, browser, pages, page, local, domResults, acquired, navigated,
                   oracleCalls, report, response>>

\* A discovery that answers an unreadable root with an empty list.
ScanStudentsSwallowing ==
    /\ pc = "scan"
    /\ students' = IF student_root.exists THEN scanStudentFolders(student_root.listing)
                   ELSE <<>>
    /\ pc' = "mkdir"
    /\ UNCHANGED <<runs, mounted, call, variant, entry, body, student_root, rubric, rubricCalls, idx,
                   results, browser, pages, page, local, domResults, acquired, navigated,
                   oracleCalls, report, thrown, response>>

\* const students = await scanStudentFolders(): readdir throws on a missing
\* or unreadable root.
ScanStudents ==
    /\ pc = "scan"
    /\ \/ /\ student_root.exists
          /\ students' = scanStudentFolders(student_root.listing)
          /\ pc' = "mkdir"
          /\ UNCHANGED thrown
       \/ /\ Reject(ErrorMessage)
          /\ UNCHANGED students
    /\ UNCHANGED <<runs, mounted, call, variant, entry, body, student_root, rubric, rubricCalls, idx,
                   results, browser, pages, page, local, domResults, acquired, navigated,
                   oracleCalls, report, response>>

\* fs.mkdir, chromium.launch, browser.newContext.  A failure of newContext
\* leaves the launched browser behind.
LaunchBrowser ==
    /\ pc = "mkdir"
    /\ \/ /\ browser' = "open"
          /\ pc' = IF variant = "ev03b" THEN "expected" ELSE "loop"
          /\ idx' = IF variant = "ev03b" THEN idx ELSE 1
          /\ UNCHANGED thrown
       \/ /\ browser' \in {"none", "open"}
          /\ Reject(ErrorMessage)
          /\ UNCHANGED idx
    /\ UNCHANGED <<runs, mounted, call, variant, entry, body, student_root, rubric, rubricCalls, students,
                   results, pages, page, local, domResults, acquired, navigated,
                   oracleCalls, report, response>>

\* The pages of the browser context.
ExpectedPageId == [kind |-> "expected", i |-> 0]
StudentPage(i) == [kind |-> "student", i |-> i]

\* The reference design (evaluator-03.js:317-321): a page is opened,
\* navigated to expectedUrl, captured, closed, and the capture read back.
\* Navigating to an undefined url throws and leaves the page open; the other
\* calls may throw before or after the page is closed.
ExpectedPage ==
    /\ pc = "expected"
    /\ \/ /\ body.expectedUrl
          /\ pc' = "loop"
          /\ idx' = 1
          /\ UNCHANGED <<thrown, pages>>
       \/ /\ \/ pages' = pages \cup {ExpectedPageId}
             \/ body.expectedUrl /\ pages' = pages
          /\ Reject(ErrorMessage)
          /\ UNCHANGED idx
    /\ UNCHANGED <<runs, mounted, call, variant, entry, body, student_root, rubric, rubricCalls, students,
                   results, browser, page, local, domResults, acquired, navigated,
                   oracleCalls, report, response>>

\* ------------------------------------------------- the per-student loop
\* name.replace(/\s+/g, '_')
RECURSIVE ReplaceSpaces(_)
ReplaceSpaces(name) ==
    IF Len(name) = 0 THEN <<>>
    ELSE IF IsSpace(name[1])
    THEN <<"_">> \o ReplaceSpaces(SubSeq(name, SkipSpaces(name, 1), Len(name)))
    ELSE <<name[1]>> \o ReplaceSpaces(Tail(name))
screenshotPath(name) == <<"screenshots/">> \o ReplaceSpaces(name) \o <<".png">>

\* The guard of the short-circuit (scanner.js:199, evaluator-02.js:139,
\* evaluator-03.js:140 and :330).
IsFlagged(v, student) ==
    IF v = "scanner" THEN "Missing HTML" \in Range(student.flags)
    ELSE Len(student.flags) > 0

\* The record pushed for a flagged student.
FlaggedResult(v, student) ==
    IF v = "scanner"
    THEN [name |-> student.name, error |-> Defined(<<"Missing HTML">>), score |-> Zero]
    ELSE IF v = "ev02"
    THEN [name |-> student.name, error |-> Defined(Join(student.flags)), score |-> Zero,
          feedback |-> <<"The following required files are missing: ">>
                       \o Join(student.flags)
                       \o <<". Please ensure the student folder includes all necessary HTML and CSS files.">>]
    ELSE IF v = "ev03a"
    THEN [name |-> student.name, error |-> Defined(Join(student.flags)), score |-> Zero,
          feedback |-> <<"The following required files are missing: ">>
                       \o Join(student.flags) \o <<".">>]
    ELSE [name |-> student.name, error |-> Defined(Join(student.flags)), score |-> Zero,
          feedback |-> <<"Missing files: ">> \o Join(student.flags),
          manualCorrection |-> TRUE]

\* The record the catch block pushes.
FailedResult(v, name, message) ==
    IF v = "scanner" THEN [name |-> name, error |-> message]
    ELSE IF v \in {"ev02", "ev03a"} THEN [name |-> name, error |-> message, score |-> Zero]
    ELSE [name |-> name, score |-> Zero, error |-> message, manualCorrection |-> TRUE]

\* The record pushed for a judged student.
JudgedResult(v, name, loc) ==
    IF v = "scanner"
    THEN [name |-> name, screenshot |-> screenshotPath(name), score |-> loc.totalScore,
          feedback |-> loc.feedback]
    ELSE IF v = "ev02"
    THEN [name |-> name, score |-> loc.totalScore, feedback |-> loc.feedback]
    ELSE IF v = "ev03a"
    THEN [name |-> name, score |-> loc.totalScore, feedback |-> loc.feedback,
          manualFlag |-> loc.manualFlag]
    ELSE [name |-> name, score |-> loc.totalScore, feedback |-> loc.feedback,
          manualCorrection |-> loc.manualCorrection]

AtStudent == idx >= 1 /\ idx <= Len(students)
student == students[idx]

\* if (student.flags...) { results.push(...); continue; }
FlaggedStudent ==
    /\ pc = "loop"
    /\ AtStudent
    /\ IsFlagged(variant, student)
    /\ results' = Append(results, FlaggedResult(variant, student))
    /\ idx' = idx + 1
    /\ UNCHANGED <<runs, mounted, call, variant, entry, body, student_root, pc, rubric, rubricCalls, students,
                   browser, pages, page, local, domResults, acquired, navigated,
                   oracleCalls, report, thrown, response>>

\* const page = await context.newPage(), outside the try block.
NewPage ==
    /\ pc = "loop"
    /\ AtStudent
    /\ ~IsFlagged(variant, student)
    /\ acquired' = acquired \cup {idx}
    /\ \/ /\ pages' = pages \cup {StudentPage(idx)}
          /\ local' = [inTry |-> TRUE, caught |-> FALSE, steps |-> <<>>, content |-> <<>>,
                       totalScore |-> Zero, feedback |-> <<>>, manualFlag |-> "",
                       manualCorrection |-> FALSE]
          /\ pc' = "goto"
          /\ UNCHANGED thrown
       \/ /\ Reject(ErrorMessage)
          /\ UNCHANGED <<pages, local>>
    /\ UNCHANGED <<runs, mounted, call, variant, entry, body, student_root, rubric, rubricCalls, students, idx,
                   results, browser, page, domResults, navigated, oracleCalls, report,
                   response>>

\* The awaited call of the try block returned: the body goes on to its next
\* statement.
Done(step) == [local EXCEPT !.steps = Append(@, step)]

\* A catch block that only logs.
CatchWithoutPush(message) ==
    /\ results' = results
    /\ local' = [local EXCEPT !.caught = TRUE]
    /\ pc' = "close"

\* catch (err): the failure record is pushed, then control goes to finally.
Catch(message) ==
    /\ results' = Append(results, FailedResult(variant, student.name, message))
    /\ local' = [local EXCEPT !.caught = TRUE]
    /\ pc' = "close"

\* await page.goto(url, { waitUntil: 'load', timeout: 15000 })
Goto ==
    /\ pc = "goto"
    /\ navigated' = navigated \cup {idx}
    /\ \/ /\ pc' = "screenshot"
          /\ \E p \in Pages : page' = p
          /\ local' = Done("goto")
          /\ UNCHANGED results
       \/ /\ \E m \in ThrownMessages \cup {TimeoutMessage} : Catch(m)
          /\ UNCHANGED page
    /\ UNCHANGED <<runs, mounted, call, variant, entry, body, student_root, rubric, rubricCalls, students, idx,
                   browser, pages, domResults, acquired, oracleCalls, report, thrown,
                   response>>

\* await page.screenshot({ path: screenshotPath, fullPage: true })
Screenshot ==
    /\ pc = "screenshot"
    /\ \/ /\ pc' = "domChecks"
          /\ local' = Done("screenshot")
          /\ UNCHANGED results
       \/ Catch(ErrorMessage)
    /\ UNCHANGED <<runs, mounted, call, variant, entry, body, student_root, rubric, rubricCalls, students, idx,
                   browser, pages, page, domResults, acquired, navigated, oracleCalls, report,
                   thrown, response>>

\* runPlaywrightChecks (scanner.js:138-159): five page.$ calls and one
\* page.evaluate, none of them guarded.
runPlaywrightChecks(pg) ==
    [threw |-> pg.detached, results |-> <<>>, calls |-> IF pg.detached THEN 1 ELSE 6]

\* Structural checks that take the criteria off the rubric as they go.
DomChecksConsumingRubric ==
    /\ pc = "domChecks"
    /\ LET r == IF variant = "scanner" THEN runPlaywrightChecks(page)
                  ELSE runDynamicDomChecks(page, rubric)
       IN IF r.threw
          THEN /\ Catch(ErrorMessage)
               /\ UNCHANGED domResults
          ELSE /\ domResults' = r.results
               /\ pc' = "readFile"
               /\ local' = Done("domChecks")
               /\ UNCHANGED results
    /\ rubric' = IF rubric.isArray /\ Len(rubric.items) > 0
                 THEN JArray(Tail(rubric.items)) ELSE rubric
    /\ UNCHANGED <<runs, mounted, call, variant, entry, body, student_root, rubricCalls, students, idx,
                   browser, pages, page, acquired, navigated, oracleCalls, report, thrown,
                   response>>
\* The structural checks and buildVisionPrompt: both only read the rubric.
DomChecks ==
    /\ pc = "domChecks"
    /\ LET r == IF variant = "scanner" THEN runPlaywrightChecks(page)
                  ELSE runDynamicDomChecks(page, rubric)
       IN IF r.threw
          THEN /\ Catch(ErrorMessage)
               /\ UNCHANGED domResults
          ELSE /\ domResults' = r.results
               /\ pc' = "readFile"
               /\ local' = Done("domChecks")
               /\ UNCHANGED results
    /\ UNCHANGED <<runs, mounted, call, variant, entry, body, student_root, rubric, rubricCalls, students, idx,
                   browser, pages, page, acquired, navigated, oracleCalls, report, thrown,
                   response>>

\* await fs.readFile(screenshotPath)
ReadScreenshot ==
    /\ pc = "readFile"
    /\ \/ /\ pc' = "vision"
          /\ local' = Done("readFile")
          /\ UNCHANGED results
       \/ Catch(ErrorMessage)
    /\ UNCHANGED <<runs, mounted, call, variant, entry, body, student_root, rubric, rubricCalls, students, idx,
                   browser, pages, page, domResults, acquired, navigated, oracleCalls, report,
                   thrown, response>>

\* The judgment request and the parsing of its reply.  In evaluator-03.js:371
\* the record is pushed inside the try block; the other variants keep the
\* values in locals and push after finally.
VisionCall ==
    /\ pc = "vision"
    /\ oracleCalls' = Append(oracleCalls, idx)
    /\ \/ Catch(ErrorMessage)
       \/ \E reply \in OracleReplies :
            LET j == Judgment(variant, reply)
                loc == [local EXCEPT !.content = reply,
                                     !.totalScore = j.totalScore,
                                     !.feedback = j.feedback,
                                     !.manualCorrection = j.manualCorrection]
            IN /\ local' = loc
               /\ results' = IF variant = "ev03b"
                             THEN Append(results, JudgedResult(variant, student.name, loc))
                             ELSE results
               /\ pc' = IF variant = "ev03a" THEN "compare" ELSE "close"
    /\ UNCHANGED <<runs, mounted, call, variant, entry, body, student_root, rubric, rubricCalls, students, idx,
                   browser, pages, page, domResults, acquired, navigated, report, thrown,
                   response>>

\* manualFlag = await compareWithExpected(EXPECTED_IMAGE_PATH, screenshotPath)
\* (evaluator-03.js:191): two file reads and a second oracle request.
compareWithExpected ==
    /\ pc = "compare"
    /\ \/ \E reply \in CompareReplies :
            /\ local' = [local EXCEPT !.manualFlag = ManualFlagOf(reply)]
            /\ pc' = "close"
            /\ UNCHANGED results
       \/ Catch(ErrorMessage)
    /\ UNCHANGED <<runs, mounted, call, variant, entry, body, student_root, rubric, rubricCalls, students, idx,
                   browser, pages, page, domResults, acquired, navigated, oracleCalls, report,
                   thrown, response>>

\* A page.close() at the end of the try block instead of in finally: a
\* caught failure skips it.
PageCloseInTry ==
    /\ pc = "close"
    /\ \/ /\ pages' = IF local.caught THEN pages ELSE pages \ {StudentPage(idx)}
          /\ results' = IF variant # "ev03b" /\ ~local.caught
                        THEN Append(results, JudgedResult(variant, student.name, local))
                        ELSE results
          /\ idx' = idx + 1
          /\ local' = NoLocal
          /\ page' = NoPage
          /\ domResults' = <<>>
          /\ pc' = "loop"
          /\ UNCHANGED thrown
       \/ /\ pages' \in {pages, pages \ {StudentPage(idx)}}
          /\ Reject(ErrorMessage)
          /\ UNCHANGED <<results, idx, local, page, domResults>>
    /\ UNCHANGED <<runs, mounted, call, variant, entry, body, student_root, rubric, rubricCalls, students,
                   browser, acquired, navigated, oracleCalls, report, response>>

\* finally { await page.close(); } and, where the push follows the try
\* statement, that push.  A close that throws leaves the function at once.
PageClose ==
    /\ pc = "close"
    /\ \/ /\ pages' = pages \ {StudentPage(idx)}
          /\ results' = IF variant # "ev03b" /\ ~local.caught
                        THEN Append(results, JudgedResult(variant, student.name, local))
                        ELSE results
          /\ idx' = idx + 1
          /\ local' = NoLocal
          /\ page' = NoPage
          /\ domResults' = <<>>
          /\ pc' = "loop"
          /\ UNCHANGED thrown
       \/ /\ pages' \in {pages, pages \ {StudentPage(idx)}}
          /\ Reject(ErrorMessage)
          /\ UNCHANGED <<results, idx, local, page, domResults>>
    /\ UNCHANGED <<runs, mounted, call, variant, entry, body, student_root, rubric, rubricCalls, students,
                   browser, acquired, navigated, oracleCalls, report, response>>

\* A run that goes on to write the report and leaves the browser for later.
BrowserCloseDeferred ==
    /\ pc = "loop"
    /\ idx > Len(students)
    /\ \/ /\ pc' = "write"
          /\ UNCHANGED <<browser, pages, thrown>>
       \/ /\ Reject(ErrorMessage)
          /\ UNCHANGED <<browser, pages>>
    /\ UNCHANGED <<runs, mounted, call, variant, entry, body, student_root, rubric, rubricCalls, students, idx,
                   results, page, local, domResults, acquired, navigated, oracleCalls,
                   report, response>>
\* await browser.close() after the loop
BrowserClose ==
    /\ pc = "loop"
    /\ idx > Len(students)
    /\ \/ /\ browser' = "closed"
          /\ pages' = {}
          /\ pc' = "write"
          /\ UNCHANGED thrown
       \/ /\ Reject(ErrorMessage)
          /\ UNCHANGED <<browser, pages>>
    /\ UNCHANGED <<runs, mounted, call, variant, entry, body, student_root, rubric, rubricCalls, students, idx,
                   results, page, local, domResults, acquired, navigated, oracleCalls,
                   report, response>>

\* JSON.stringify drops a property whose value is undefined; JSON.parse
\* gives back the properties that were written.
JsonRecord(r) ==
    LET kept == {f \in DOMAIN r : ~(f = "error" /\ r[f] = Undefined)}
    IN [f \in kept |-> r[f]]
JsonRoundTrip(list) == [i \in 1..Len(list) |-> JsonRecord(list[i])]

\* await fs.writeFile(final_scores.json, JSON.stringify(results, null, 2))
WriteReport ==
    /\ pc = "write"
    /\ \/ /\ report' = [written |-> TRUE, writes |-> report.writes + 1,
                        content |-> JsonRoundTrip(results)]
          /\ pc' = "returned"
          /\ UNCHANGED thrown
       \/ /\ Reject(ErrorMessage)
          /\ UNCHANGED report
    /\ UNCHANGED <<runs, mounted, call, variant, entry, body, student_root, rubric, rubricCalls, students, idx,
                   results, browser, pages, page, local, domResults, acquired, navigated,
                   oracleCalls, response>>

Next ==
    \/ Evaluate
    \/ Respond
    \/ cloneGitRepo
    \/ ParseRubric
    \/ ScanStudents
    \/ LaunchBrowser
    \/ ExpectedPage
    \/ FlaggedStudent
    \/ NewPage
    \/ Goto
    \/ Screenshot
    \/ DomChecks
    \/ ReadScreenshot
    \/ VisionCall
    \/ compareWithExpected
    \/ PageClose
    \/ BrowserClose
    \/ WriteReport

Spec == Init /\ [][Next]_vars

\* The run under the assumption that every awaited call (browser, file
\* system, oracle, git) eventually returns or throws: a run that can take a
\* step eventually takes one.
SpecLive == Init /\ [][Next]_vars /\ WF_vars(Next)

\* ============================================ the pure functions, called alone
\* The variables of the run, and a run that is not started.
runVars == <<variant, entry, body, student_root, pc, rubric, rubricCalls, students, idx,
             results, browser, pages, page, local, domResults, acquired, navigated,
             oracleCalls, report, thrown, response, mounted, runs>>
NoRun ==
    /\ variant = "ev03b"
    /\ entry = "cli"
    /\ body = [repoUrl |-> FALSE, rubric |-> FALSE, expectedUrl |-> FALSE]
    /\ student_root = MissingDir
    /\ pc = "none"
    /\ rubric = JArray(<<>>)
    /\ rubricCalls = 0
    /\ students = <<>>
    /\ idx = 0
    /\ results = <<>>
    /\ browser = "none"
    /\ pages = {}
    /\ page = NoPage
    /\ local = NoLocal
    /\ domResults = <<>>
    /\ acquired = {}
    /\ navigated = {}
    /\ oracleCalls = <<>>
    /\ report = NoReport
    /\ thrown = NotThrown
    /\ response = NoResponse
    /\ mounted = {}

\* Answers of the oracle to the normalisation request: a JSON array, alone
\* or inside a code fence.  A wrapping says how much white space precedes
\* the reply, whether a fence opens it, the letters that follow the fence,
\* the white space around the array, whether a fence closes it, and the
\* white space at the end.
Wrappings ==
    LET tags == {<<>>, JsonTag, <<"J", "S", "O", "N">>, <<"J", "s", "o", "N">>,
                 <<"j", "s">>, <<"j", "s", "o", "n", "c">>}
    IN {w \in [lead : 0..MaxSpaces, open : BOOLEAN, tag : tags, before : 0..MaxSpaces,
               after : 0..MaxSpaces, close : BOOLEAN, trail : 0..MaxSpaces] :
          w.open \/ w.tag = <<>>}
Wrap(v, w) ==
    LET Ws(n) == [i \in 1..n |-> TSpace]
    IN
    Ws(w.lead)
    \o (IF w.open THEN <<TFence>> ELSE <<>>)
    \o (IF w.tag # <<>> THEN <<TTag(w.tag)>> ELSE <<>>)
    \o Ws(w.before) \o <<TJson(v)>> \o Ws(w.after)
    \o (IF w.close THEN <<TFence>> ELSE <<>>)
    \o Ws(w.trail)
\* Replies of the judgment oracle: some words, a marker, a separator, a
\* number, and an ending.
JudgmentReplies ==
    LET starts == {<<>>,
                    <<"T", "o", "t", "a", "l", " ">>}
        markers == {<<"S", "c", "o", "r", "e">>,
                     <<"s", "c", "o", "r", "e">>,
                     <<"S", "C", "O", "R", "E">>,
                     <<"m", "a", "r", "k", "s">>}
        separators == {<<":", " ">>,
                        <<" ", "o", "u", "t", " ", "o", "f", " ", "1", "0", ":", " ">>,
                        <<":", "\n">>,
                        <<" ">>}
        numbers == {<<>>,
                     <<"7", ".", "5">>,
                     <<"8">>,
                     <<"1", "0">>}
        endings == {<<>>,
                     <<"/", "1", "0">>,
                     <<"\n", "m", "a", "n", "u", "a", "l", " ", "c", "o", "r", "r", "e", "c", "t", "i", "o", "n">>,
                     <<".", " ", "M", "a", "n", "u", "a", "l", " ", "C", "o", "r", "r", "e", "c", "t", "i", "o", "n", " ", "n", "e", "e", "d", "e", "d">>,
                     <<" ", "d", "i", "f", "f", "e", "r", "e", "n", "t">>,
                     <<"\n", "D", "I", "F", "F", "E", "R", "E", "N", "T", " ", "l", "a", "y", "o", "u", "t">>}
    IN {a \o m \o p \o n \o e :
          a \in starts, m \in markers, p \in separators, n \in numbers, e \in endings}

\* The record of a student whose judgment request was answered with
\* call.reply (and, in evaluator-03.js:191, whose comparison request was
\* answered with call.compareReply).
CallJudge ==
    /\ call.fn = "judge"
    /\ ~call.done
    /\ LET j == Judgment(call.variant, call.reply)
           loc == [totalScore |-> j.totalScore, feedback |-> j.feedback,
                   manualCorrection |-> j.manualCorrection,
                   manualFlag |-> ManualFlagOf(call.compareReply)]
       IN call' = [fn |-> call.fn, variant |-> call.variant, reply |-> call.reply,
                   compareReply |-> call.compareReply, done |-> TRUE,
                   result |-> JudgedResult(call.variant, <<"a">>, loc)]
    /\ UNCHANGED runVars

\* Roots handed to scanStudentFolders: each entry is a directory with up to
\* MaxFiles markup files and stylesheets beneath it, a directory that holds
\* neither, a plain file, a hidden file or a hidden directory.
File(dir, base, ext) == [dir |-> dir, base |-> base, ext |-> ext]
FileLists ==
    LET files == {File("", "index", "html"), File("pages", "about", "html"),
                  File("css", "style", "css")}
    IN UNION {{l \in [1..n -> files] : \A i, j \in 1..n : l[i] = l[j] => i = j} :
                 n \in 0..MaxFiles}
TreeShapes ==
    {[hidden |-> FALSE, isDir |-> TRUE, files |-> l] : l \in FileLists}
    \cup {[hidden |-> FALSE, isDir |-> TRUE, files |-> <<File("", "README", "md")>>],
          [hidden |-> FALSE, isDir |-> FALSE, files |-> <<>>],
          [hidden |-> TRUE, isDir |-> FALSE, files |-> <<>>],
          [hidden |-> TRUE, isDir |-> TRUE, files |-> <<File("", "index", "html")>>]}
Roots ==
    UNION {{[i \in 1..n |->
               [name |-> IF l[i].hidden THEN HiddenName(EntryNames[i]) ELSE EntryNames[i],
                isDir |-> l[i].isDir, files |-> l[i].files]] :
              l \in [1..n -> TreeShapes]} : n \in 0..MaxEntries}

\* scanStudentFolders over a readable root.
CallScan ==
    /\ call.fn = "scanStudentFolders"
    /\ ~call.done
    /\ call' = [fn |-> call.fn, root |-> call.root, done |-> TRUE,
                students |-> scanStudentFolders([i \in 1..Len(call.root) |->
                                                   Globbed(call.root[i])])]
    /\ UNCHANGED runVars

\* parseRubricWithSelectors on the bare array and on the wrapped one.
CallParseRubric ==
    /\ call.fn = "parseRubricWithSelectors"
    /\ ~call.done
    /\ call' = [fn |-> call.fn, value |-> call.value, wrapping |-> call.wrapping,
                done |-> TRUE,
                bare |-> parseRubricWithSelectors(<<TJson(call.value)>>),
                fenced |-> parseRubricWithSelectors(Wrap(call.value, call.wrapping))]
    /\ UNCHANGED runVars

\* SCREENSHOT_DIR/expected.png (evaluator-03.js:23 and :234)
EXPECTED_PATH == <<"screenshots/">> \o <<"e", "x", "p", "e", "c", "t", "e", "d">> \o <<".png">>

\* The key under which initServer files a student's folder
\* (server-01.js:21): studentMap[student.name.toLowerCase()].
studentMapKey(name) == ToLowerCase(name)

\* Names of student folders: a letter in either case, a separator (nothing,
\* an underscore, a tab or up to MaxSpaces spaces) and a letter; and the
\* name "expected".
SubmissionNames ==
    LET separators == {<<>>, <<"_">>, <<"\t">>} \cup {[i \in 1..n |-> " "] : n \in 1..MaxSpaces}
    IN {h \o p \o <<"b">> : h \in {<<"a">>, <<"A">>}, p \in separators}
       \cup {<<"e", "x", "p", "e", "c", "t", "e", "d">>}

\* What the loop body and the two servers derive from the names of two
\* folders of one root: the screenshot path (evaluator-03.js:158 and :344),
\* the route of server.js:25 and the key of server-01.js:21.
CallPaths ==
    /\ call.fn = "artifactPaths"
    /\ ~call.done
    /\ call' = [fn |-> call.fn, first |-> call.first, second |-> call.second, done |-> TRUE,
                paths |-> <<screenshotPath(call.first), screenshotPath(call.second)>>,
                routes |-> <<StudentRoute(call.first), StudentRoute(call.second)>>,
                keys |-> <<studentMapKey(call.first), studentMapKey(call.second)>>]
    /\ UNCHANGED runVars

InitFn ==
    /\ NoRun
    /\ runs = NoRuns
    /\ call \in
          {[fn |-> "parseRubricWithSelectors", value |-> v, wrapping |-> w, done |-> FALSE] :
             v \in {RubricOne, RubricTwo, JArray(<<>>)}, w \in Wrappings}
          \cup {[fn |-> "judge", variant |-> v, reply |-> r, compareReply |-> c,
                 done |-> FALSE] :
                  v \in Variants, r \in JudgmentReplies, c \in CompareReplies}
          \cup {[fn |-> "scanStudentFolders", root |-> r, done |-> FALSE] : r \in Roots}
          \cup {c \in {[fn |-> "artifactPaths", first |-> a, second |-> b, done |-> FALSE] :
                          a \in SubmissionNames, b \in SubmissionNames} :
                   c.first # c.second}

NextFn ==
    \/ CallParseRubric
    \/ CallJudge
    \/ CallScan
    \/ CallPaths

SpecFn == InitFn /\ [][NextFn]_vars

\* ================================== two POST /evaluate requests in flight
\* The handler of server.js:38-56 is an async function and nothing keeps a
\* second request from entering it while the first awaits: each request has
\* its own run of evaluateStudentsWithVision (evaluator-03.js:305-387) with
\* its own locals, and the runs share the students_project directory and
\* final_scores.json.  A run advances from one await to the next.
Requests == {1, 2}

\* The repository each request names.
RepoListing(q) ==
    IF q = 1
    THEN <<[name |-> <<"a">>, isDir |-> TRUE, htmlFiles |-> <<"index.html">>,
            cssFiles |-> <<"style.css">>]>>
    ELSE <<[name |-> <<"b">>, isDir |-> TRUE, htmlFiles |-> <<"index.html">>,
            cssFiles |-> <<"style.css">>],
           [name |-> <<"c">>, isDir |-> TRUE, htmlFiles |-> <<"index.html">>,
            cssFiles |-> <<>>]>>

\* The variables a request does not touch.
idleVars == <<variant, entry, body, pc, rubric, rubricCalls, students, idx, results,
              browser, pages, page, local, domResults, acquired, navigated, oracleCalls,
              thrown, response, mounted, call>>

\* Run q moves to position p.
At(q, p) == runs[q].pc = p
Move(q, p) == runs' = [runs EXCEPT ![q].pc = p]
\* Run q rejects: the handler's catch answers 500.
Fail(q) == runs' = [runs EXCEPT ![q].pc = "respond", ![q].answered = 500]

\* The request arrives with repoUrl and rubric (server.js:38-46).
ReqEvaluate(q) ==
    /\ At(q, "idle")
    /\ Move(q, "stat")
    /\ UNCHANGED <<student_root, report>>
    /\ UNCHANGED idleVars

\* await fs.stat(STUDENT_DIR).catch(() => false) (evaluator-03.js:239)
ReqStat(q) ==
    /\ At(q, "stat")
    /\ Move(q, IF student_root.exists THEN "rm" ELSE "clone")
    /\ UNCHANGED <<student_root, report>>
    /\ UNCHANGED idleVars

\* await fs.rm(STUDENT_DIR, { recursive: true }): throws when the other run
\* has removed the directory in the meantime.
ReqRm(q) ==
    /\ At(q, "rm")
    /\ IF student_root.exists
       THEN /\ student_root' = MissingDir
            /\ Move(q, "clone")
       ELSE /\ Fail(q)
            /\ UNCHANGED student_root
    /\ UNCHANGED report
    /\ UNCHANGED idleVars

\* await execPromise(`git clone ${gitUrl} ${STUDENT_DIR}`): git refuses a
\* destination that exists and is not empty, and may fail otherwise.
ReqClone(q) ==
    /\ At(q, "clone")
    /\ \/ /\ ~student_root.exists
          /\ student_root' = Dir(RepoListing(q))
          /\ Move(q, "parseRubric")
       \/ /\ Fail(q)
          /\ UNCHANGED student_root
    /\ UNCHANGED report
    /\ UNCHANGED idleVars

\* const rubric = await parseRubricWithSelectors(rubricText)
ReqParseRubric(q) ==
    /\ At(q, "parseRubric")
    /\ \/ Move(q, "scan")
       \/ Fail(q)
    /\ UNCHANGED <<student_root, report>>
    /\ UNCHANGED idleVars

\* const students = await scanStudentFolders(): the directory as it is on
\* disk now, whichever run put it there.
ReqScan(q) ==
    /\ At(q, "scan")
    /\ IF student_root.exists
       THEN runs' = [runs EXCEPT ![q].pc = "launch",
                                 ![q].students = scanStudentFolders(student_root.listing)]
       ELSE Fail(q)
    /\ UNCHANGED <<student_root, report>>
    /\ UNCHANGED idleVars

\* fs.mkdir, chromium.launch, browser.newContext and the reference page
\* (evaluator-03.js:309-321): each run launches a browser of its own.
ReqLaunch(q) ==
    /\ At(q, "launch")
    /\ \/ runs' = [runs EXCEPT ![q].pc = "loop", ![q].browser = "open", ![q].idx = 1]
       \/ Fail(q)
    /\ UNCHANGED <<student_root, report>>
    /\ UNCHANGED idleVars

ReqAtStudent(q) == runs[q].idx >= 1 /\ runs[q].idx <= Len(runs[q].students)
ReqStudent(q) == runs[q].students[runs[q].idx]

\* The short-circuit for a flagged student (evaluator-03.js:330-339).
ReqFlagged(q) ==
    /\ At(q, "loop")
    /\ ReqAtStudent(q)
    /\ IsFlagged("ev03b", ReqStudent(q))
    /\ runs' = [runs EXCEPT ![q].results = Append(@, FlaggedResult("ev03b", ReqStudent(q))),
                            ![q].idx = @ + 1]
    /\ UNCHANGED <<student_root, report>>
    /\ UNCHANGED idleVars

\* const page = await context.newPage()
ReqNewPage(q) ==
    /\ At(q, "loop")
    /\ ReqAtStudent(q)
    /\ ~IsFlagged("ev03b", ReqStudent(q))
    /\ \/ runs' = [runs EXCEPT ![q].pc = "goto", ![q].pageOpen = TRUE]
       \/ Fail(q)
    /\ UNCHANGED <<student_root, report>>
    /\ UNCHANGED idleVars

\* The awaits of the try block before the judgment request: page.goto,
\* page.screenshot, runDynamicDomChecks, fs.readFile.  A throw is caught and
\* recorded.
ReqPositions == <<"goto", "screenshot", "domChecks", "readFile", "vision">>
ReqCatch(q) ==
    runs' = [runs EXCEPT ![q].pc = "close",
                         ![q].results = Append(@, FailedResult("ev03b", ReqStudent(q).name,
                                                               ErrorMessage))]
ReqStep(q) ==
    /\ \E k \in 1..(Len(ReqPositions) - 1) :
          /\ At(q, ReqPositions[k])
          /\ \/ Move(q, ReqPositions[k + 1])
             \/ ReqCatch(q)
    /\ UNCHANGED <<student_root, report>>
    /\ UNCHANGED idleVars

\* The judgment request, the parsing of its reply and the push.
ReqVision(q) ==
    /\ At(q, "vision")
    /\ \/ \E reply \in OracleReplies :
            LET j == Judgment("ev03b", reply)
            IN runs' = [runs EXCEPT ![q].pc = "close",
                                    ![q].results =
                                        Append(@, JudgedResult("ev03b", ReqStudent(q).name, j))]
       \/ ReqCatch(q)
    /\ UNCHANGED <<student_root, report>>
    /\ UNCHANGED idleVars

\* finally { await page.close(); }
ReqPageClose(q) ==
    /\ At(q, "close")
    /\ \/ runs' = [runs EXCEPT ![q].pc = "loop", ![q].pageOpen = FALSE, ![q].idx = @ + 1]
       \/ Fail(q)
    /\ UNCHANGED <<student_root, report>>
    /\ UNCHANGED idleVars

\* await browser.close() after the loop
ReqBrowserClose(q) ==
    /\ At(q, "loop")
    /\ runs[q].idx > Len(runs[q].students)
    /\ \/ runs' = [runs EXCEPT ![q].pc = "write", ![q].browser = "closed"]
       \/ Fail(q)
    /\ UNCHANGED <<student_root, report>>
    /\ UNCHANGED idleVars

\* await fs.writeFile(final_scores.json, ...), then the function ends and the
\* handler answers 200.
ReqWriteReport(q) ==
    /\ At(q, "write")
    /\ \/ /\ report' = [written |-> TRUE, writes |-> report.writes + 1,
                        content |-> JsonRoundTrip(runs[q].results)]
          /\ runs' = [runs EXCEPT ![q].pc = "respond", ![q].answered = 200]
       \/ /\ Fail(q)
          /\ UNCHANGED report
    /\ UNCHANGED student_root
    /\ UNCHANGED idleVars

\* res.json(...) (server.js:48 and :54)
ReqRespond(q) ==
    /\ At(q, "respond")
    /\ Move(q, "responded")
    /\ UNCHANGED <<student_root, report>>
    /\ UNCHANGED idleVars

InitTwo ==
    /\ NoRun
    /\ call = NoCall
    /\ runs = [q \in Requests |->
                 [pc |-> "idle", students |-> <<>>, idx |-> 0, results |-> <<>>,
                  browser |-> "none", pageOpen |-> FALSE, answered |-> 0]]

NextTwo ==
    \/ \E q \in Requests : ReqEvaluate(q)
    \/ \E q \in Requests : ReqStat(q)
    \/ \E q \in Requests : ReqRm(q)
    \/ \E q \in Requests : ReqClone(q)
    \/ \E q \in Requests : ReqParseRubric(q)
    \/ \E q \in Requests : ReqScan(q)
    \/ \E q \in Requests : ReqLaunch(q)
    \/ \E q \in Requests : ReqFlagged(q)
    \/ \E q \in Requests : ReqNewPage(q)
    \/ \E q \in Requests : ReqStep(q)
    \/ \E q \in Requests : ReqVision(q)
    \/ \E q \in Requests : ReqPageClose(q)
    \/ \E q \in Requests : ReqBrowserClose(q)
    \/ \E q \in Requests : ReqWriteReport(q)
    \/ \E q \in Requests : ReqRespond(q)

SpecTwo == InitTwo /\ [][NextTwo]_vars

\* ================================================================ claims
StudentPagesOpen == {p \in pages : p.kind = "student"}
\* The run left the per-student loop by an exception.
RejectedInLoop == thrown.is /\ thrown.at \in {"loop", "close"} /\ idx <= Len(students)
\* The k-th record was pushed by the catch block.
IsFailedAt(list, k) ==
    /\ k <= Len(list)
    /\ "error" \in DOMAIN list[k]
    /\ ~IsFlagged(variant, students[k])

\* C1: the report a run writes holds exactly one entry per discovered
\* submission, in discovery order, whatever the mix of flagged, judged and
\* failed submissions.
C1_ReportEnumeratesStudents ==
    report.written =>
        /\ Len(report.content) = Len(students)
        /\ \A i \in 1..Len(students) : report.content[i].name = students[i].name

C1_Witness ==
    /\ report.written
    /\ Len(students) >= 2
    /\ \E i \in 1..Len(students) : IsFlagged(variant, students[i])
    /\ \E i \in 1..Len(students) : IsFailedAt(report.content, i)

\* C2: an exception raised while a renderable submission is processed (page
\* acquisition and page release included) never leaves the per-submission
\* loop; the submission gets a result and the later ones are processed.
C2_FailureStaysInsideLoop ==
    /\ ~RejectedInLoop
    /\ \A i \in acquired : i < idx => i <= Len(results)

\* C3: a submission whose navigation timed out gets a Failed record with
\* score 0, a non-empty error and the manual-review flag, and the
\* submissions after it are still processed.
C3_TimeoutIsFailedAndRunGoesOn ==
    \A k \in 1..Len(results) :
        ("error" \in DOMAIN results[k] /\ results[k].error = TimeoutMessage) =>
            /\ "score" \in DOMAIN results[k]
            /\ results[k].score = Zero
            /\ Len(results[k].error.text) > 0
            /\ "manualCorrection" \in DOMAIN results[k]
            /\ results[k].manualCorrection = TRUE
            /\ ~RejectedInLoop

\* C4: a submission without any markup file gets score 0 and an error that
\* names every missing artifact kind, and no page, navigation or oracle call
\* is made for it.
C4_MissingMarkupNeverRendered ==
    \A i \in 1..Len(students) :
        "Missing HTML" \in Range(students[i].flags) =>
            /\ i \notin acquired
            /\ i \notin navigated
            /\ i \notin Range(oracleCalls)
            /\ i <= Len(results) =>
                  /\ results[i].score = Zero
                  /\ results[i].error.def
                  /\ \A f \in Range(students[i].flags) : f \in Range(results[i].error.text)

\* C5: a submission with any discovery flag, a missing stylesheet alone
\* included, is never rendered and gets a zero-score result.
C5_FlaggedNeverRendered ==
    \A i \in 1..Len(students) :
        Len(students[i].flags) > 0 =>
            /\ i \notin acquired
            /\ i \notin navigated
            /\ i <= Len(results) => results[i].score = Zero

\* C6: at most one submission page is open at any moment, and none is open
\* when the loop takes the next submission or ends, whichever way the
\* previous submission's processing went.
C6_OnePageAtATime ==
    /\ Cardinality(StudentPagesOpen) <= 1
    /\ pc \in {"loop", "write", "returned"} => StudentPagesOpen = {}

C6_Witness ==
    /\ pc = "loop"
    /\ idx > Len(students)
    /\ Cardinality(acquired) >= 2
    /\ \E k \in 1..Len(results) : IsFailedAt(results, k)
    /\ \E k \in 1..Len(results) : "error" \notin DOMAIN results[k]

\* C7: a valid POST /evaluate whose run completes is answered with success
\* and the list of results; a run that throws with a structured failure; a
\* body without repoUrl or rubric with 400 and no run.
C7_EvaluateAnswersWithReport ==
    /\ response.status = 200 => response.results = Defined(results)
    /\ response.status = 500 => thrown.is
    /\ response.status = 400 =>
          /\ ~body.repoUrl \/ ~body.rubric
          /\ rubricCalls = 0 /\ browser = "none" /\ ~thrown.is /\ ~report.written

\* C8: a run started without expectedUrl still processes every discovered
\* submission and writes the report.
C8_ExpectedUrlOptional ==
    (variant = "ev03b" /\ ~body.expectedUrl) => ~(thrown.is /\ thrown.at = "expected")

\* C9: when acquisition or discovery fails the run rejects before any
\* submission is processed: no page, no result, no report; the caller gets
\* the failure.  A missing root always makes discovery fail.
C9_SetupFailureAborts ==
    /\ []((thrown.is /\ thrown.at \in {"start", "scan"}) =>
            /\ acquired = {}
            /\ navigated = {}
            /\ results = <<>>
            /\ StudentPagesOpen = {}
            /\ ~report.written
            /\ pc \in {"rejected", "responded"}
            /\ pc = "responded" => response.status = 500)
    /\ [][(pc = "scan" /\ ~student_root.exists) => pc' = "rejected"]_vars

C9_Witness ==
    /\ pc = "rejected"
    /\ thrown.at = "scan"
    /\ ~student_root.exists

\* C10: in runDynamicDomChecks a check whose evaluation throws is recorded
\* as false, the function returns normally, and every check of that and of
\* the later criteria has its entry.
C10_ThrowingCheckRecordedFalse ==
    [][(pc = "domChecks" /\ variant # "scanner" /\ rubric.isArray) =>
          /\ pc' = "readFile"
          /\ LET visits == VisitedChecks(rubric.items)
             IN \A k \in 1..Len(visits) :
                  \E e \in Range(domResults') :
                     /\ e.key = CheckKey(visits[k].item, visits[k].check)
                     /\ e.passed = (PageQuery(page, visits[k].check.selector) = "found")]_vars

C10_Witness ==
    /\ pc = "readFile"
    /\ rubric = RubricTwo
    /\ Len(domResults) = 2
    /\ domResults[1].key = <<"Form fields", " :: ", MissingSelector>>
    /\ ~domResults[1].passed
    /\ domResults[2].passed

\* C11: whatever the oracle answers to the normalisation request, the value
\* handed to the run is a list of criteria: a payload that is not an array of
\* criteria yields the empty list.
C11_RubricIsAlwaysList == rubric.isArray

\* C12: parseRubricWithSelectors returns for an array wrapped in a code fence
\* (a fence with no tag or with the tag json in any letter case, white space
\* anywhere around the parts) what it returns for the bare array: the array.
JsonOrNoTag(tag) == tag = <<>> \/ ToLowerCase(tag) = JsonTag
C12_FenceIsStripped ==
    (call.fn = "parseRubricWithSelectors" /\ call.done /\ JsonOrNoTag(call.wrapping.tag))
    => (call.fenced = call.bare /\ call.bare = call.value)
C12_Witness ==
    /\ call.fn = "parseRubricWithSelectors"
    /\ call.done
    /\ call.wrapping.open
    /\ call.wrapping.close
    /\ call.wrapping.tag = <<"J", "s", "o", "N">>
    /\ call.wrapping.lead = 1
    /\ call.wrapping.after = 1
    /\ call.value = RubricTwo
    /\ call.fenced = RubricTwo

\* C13: the score of a judged student is the first numeric token that
\* follows the marker "score" (any letter case) in the oracle's reply, and 0
\* when the reply has no such marker.
RECURSIVE FirstDigitFrom(_, _)
FirstDigitFrom(text, i) ==
    IF i > Len(text) THEN 0
    ELSE IF IsDigit(text[i]) THEN i
    ELSE FirstDigitFrom(text, i + 1)
FirstNumberAfterMarker(text) ==
    LET markers == {i \in 1..Len(text) : MatchesAt(text, i, ScoreWord)}
    IN IF markers = {} THEN Zero
       ELSE LET i == CHOOSE k \in markers : \A m \in markers : k <= m
                j == FirstDigitFrom(text, i + Len(ScoreWord))
            IN IF j = 0 THEN Zero ELSE ParseFloat(NumberCapture(text, j))
C13_ScoreIsFirstNumberAfterMarker ==
    (call.fn = "judge" /\ call.done)
    => call.result.score = FirstNumberAfterMarker(call.reply)

\* C14: the record of a judged student carries as feedback the oracle's reply
\* unchanged, whether or not a score or a manual-correction marker was found
\* in it; the report keeps it.
IsJudgedAt(list, k) == k <= Len(list) /\ "error" \notin DOMAIN list[k]
LastFeedback(list) == list[Len(list)].feedback
C14_FeedbackIsReply ==
    /\ [](\A k \in 1..Len(results) :
            IsJudgedAt(results, k) =>
               /\ results[k].feedback \in OracleReplies
               /\ report.written => report.content[k].feedback = results[k].feedback)
    /\ [][/\ (pc = "vision" /\ pc' \in {"compare", "close"} /\ ~local'.caught)
             => /\ local'.content \in OracleReplies
                /\ local'.feedback = local'.content
                /\ variant = "ev03b"
                   => (Len(results') = Len(results) + 1
                       /\ LastFeedback(results') = local'.content)
          /\ (pc = "compare" /\ ~local'.caught) => local'.feedback = local.content
          /\ (pc = "close" /\ pc' = "loop" /\ ~local.caught /\ variant # "ev03b")
             => (Len(results') = Len(results) + 1
                 /\ LastFeedback(results') = local.content)]_vars
C14_Witness ==
    /\ report.written
    /\ \E k \in 1..Len(results) :
          /\ IsJudgedAt(results, k)
          /\ results[k].feedback = ReplyManual
          /\ results[k].score = Zero
          /\ report.content[k].feedback = ReplyManual

\* text contains word, letter case ignored (word is in lower case)
ContainsIgnoringCase(text, word) ==
    \E i \in 1..Len(text) :
       /\ i + Len(word) - 1 <= Len(text)
       /\ SubSeq(ToLowerCase(text), i, i + Len(word) - 1) = word
\* The record says that a manual review is needed.
ManualFlagSet(r) ==
    \/ "manualCorrection" \in DOMAIN r /\ r.manualCorrection
    \/ "manualFlag" \in DOMAIN r /\ r.manualFlag = "Needs manual correction (visual diff)"
\* C15 as stated: the manual-review flag of a judged student is set exactly
\* when the oracle's reply contains "manual correction" or "different" in any
\* letter case.
C15_FlagIffEitherMarker ==
    (call.fn = "judge" /\ call.done)
    => (ManualFlagSet(call.result)
        <=> (ContainsIgnoringCase(call.reply, ManualCorrectionWords)
             \/ ContainsIgnoringCase(call.reply, DifferentWord)))
\* C15: in evaluator-03.js:305-387 the manual-review flag of a judged student
\* is set exactly when the judgment reply contains "manual correction" in any
\* letter case, and "different" in that reply does not set it; in
\* evaluator-03.js:125-207 the flag says that a manual correction is needed
\* exactly when the reply to the separate comparison request contains
\* "different" in any letter case; evaluator-02.js and scanner.js record no
\* manual-review flag.
C15_FlagPerVariant ==
    (call.fn = "judge" /\ call.done)
    => /\ call.variant = "ev03b"
          => (ManualFlagSet(call.result)
              <=> ContainsIgnoringCase(call.reply, ManualCorrectionWords))
       /\ call.variant = "ev03a"
          => (ManualFlagSet(call.result)
              <=> ContainsIgnoringCase(call.compareReply, DifferentWord))
       /\ call.variant \in {"ev02", "scanner"}
          => /\ "manualCorrection" \notin DOMAIN call.result
             /\ "manualFlag" \notin DOMAIN call.result
C15_Witness ==
    /\ call.fn = "judge"
    /\ call.done
    /\ call.variant = "ev03b"
    /\ ContainsIgnoringCase(call.reply, ManualCorrectionWords)
    /\ \A i \in 1..(Len(call.reply) - Len(ManualCorrectionWords) + 1) :
          SubSeq(call.reply, i, i + Len(ManualCorrectionWords) - 1) # ManualCorrectionWords
    /\ ~ContainsIgnoringCase(call.reply, DifferentWord)
    /\ call.result.manualCorrection

\* C18: reading final_scores.json back gives the list of results that was
\* written: the same records in the same order, each with the same fields
\* and values, also for a failed record whose thrown value has no message.
C18_ReportRoundTrip ==
    report.written
    => /\ Len(report.content) = Len(results)
       /\ \A k \in 1..Len(results) :
             /\ DOMAIN report.content[k] = DOMAIN results[k]
             /\ \A f \in DOMAIN results[k] : report.content[k][f] = results[k][f]

\* C19: every record of the results list, be it of a flagged, a judged or a
\* failed student, carries a name, a numeric score and a feedback text.
C19_EveryResultIsComplete ==
    \A k \in 1..Len(results) :
       /\ {"name", "score", "feedback"} \subseteq DOMAIN results[k]
       /\ DOMAIN results[k].score = {"int", "frac"}

\* C20: scanStudentFolders returns, in the order of the listing, one record
\* for each entry of the root that is a directory and whose name does not
\* start with a dot, and none for a plain file or a hidden entry; the record
\* has the flag Missing HTML exactly when no file beneath the directory is a
\* markup file, the flag Missing CSS exactly when none is a stylesheet, and
\* its entry point is the first markup file beneath it, or null.
VisibleDirs(root) ==
    {i \in 1..Len(root) : root[i].isDir /\ root[i].name[1] # "."}
FilesWithExt(t, ext) == {j \in 1..Len(t.files) : t.files[j].ext = ext}
DescribesEntry(r, t) ==
    /\ r.name = t.name
    /\ ("Missing HTML" \in Range(r.flags)) <=> (FilesWithExt(t, "html") = {})
    /\ ("Missing CSS" \in Range(r.flags)) <=> (FilesWithExt(t, "css") = {})
    /\ IF FilesWithExt(t, "html") = {} THEN r.html = Undefined
       ELSE r.html = Defined(t.files[CHOOSE j \in FilesWithExt(t, "html") :
                                        \A m \in FilesWithExt(t, "html") : j <= m])
C20_OneRecordPerVisibleDirectory ==
    (call.fn = "scanStudentFolders" /\ call.done)
    => /\ Len(call.students) = Cardinality(VisibleDirs(call.root))
       /\ \A k \in 1..Len(call.students) :
             \E i \in VisibleDirs(call.root) :
                /\ Cardinality({m \in VisibleDirs(call.root) : m < i}) = k - 1
                /\ DescribesEntry(call.students[k], call.root[i])
C20_Witness ==
    /\ call.fn = "scanStudentFolders"
    /\ call.done
    /\ Len(call.root) = 2
    /\ call.root[1].name = <<".", "a">>
    /\ call.root[1].isDir
    /\ call.root[2].files = <<File("pages", "about", "html"), File("", "index", "html")>>
    /\ Len(call.students) = 1
    /\ call.students[1].html = Defined(File("pages", "about", "html"))
    /\ call.students[1].flags = <<"Missing CSS">>

\* C16: when a student enters rendering, the url the evaluator navigates to
\* is a route the server has mounted, and the route answers with the markup
\* file discovery selected for the student; also for students the run's own
\* clone put on disk after the server started.
C16_RouteServedBeforeRendering ==
    pc = "goto"
    => \E r \in mounted :
          /\ r.route = StudentRoute(student.name)
          /\ ServedFile(student_root, r) = student.html

\* C17: at every moment at most one student is being rendered or judged,
\* also when a second /evaluate request arrives while a run is in progress.
RenderingOrJudging == {"goto", "screenshot", "domChecks", "readFile", "vision"}
C17_OneStudentAtATime ==
    Cardinality({q \in DOMAIN runs : runs[q].pc \in RenderingOrJudging}) <= 1

\* C21: the judgment request is sent for a student only after that student's
\* navigation, capture and structural checks have completed, at most once
\* per student, and never for a student that discovery flagged.
RenderedAndChecked == <<"goto", "screenshot", "domChecks", "readFile">>
C21_OracleOnlyAfterRendering ==
    [][oracleCalls' # oracleCalls =>
          /\ oracleCalls' = Append(oracleCalls, idx)
          /\ idx \notin Range(oracleCalls)
          /\ local.steps = RenderedAndChecked
          /\ Len(student.flags) = 0]_vars

\* C22: the rubric is normalised once per run, before any student is
\* rendered: one request to the oracle however many students there are (none
\* in scanner.js, whose parseRubricText is local), and no step after the
\* normalisation changes the list of criteria or asks again.
PastNormalisation == pc \notin {"request", "start", "parseRubric", "responded"} /\ ~thrown.is
C22_RubricNormalisedOnce ==
    /\ [](/\ rubricCalls <= 1
          /\ PastNormalisation => rubricCalls = (IF variant = "scanner" THEN 0 ELSE 1)
          /\ acquired # {} => rubricCalls = (IF variant = "scanner" THEN 0 ELSE 1))
    /\ [][pc # "parseRubric" => (rubric' = rubric /\ rubricCalls' = rubricCalls)]_vars
C22_Witness ==
    /\ pc = "vision"
    /\ idx = 2
    /\ 1 \in Range(oracleCalls)
    /\ rubricCalls = 1
    /\ rubric = RubricTwo
    /\ Len(domResults) = 2

\* C23: when runDynamicDomChecks has returned for a student, the mapping has
\* one entry for each check of each criterion of type dom, as many entries as
\* there are such checks (also when two checks have the same description and
\* selector), and no entry for a criterion of another type.
DomCheckKeys == {CheckKey(v.item, v.check) : v \in Range(VisitedChecks(rubric.items))}
C23_OneEntryPerCheck ==
    (pc = "readFile" /\ variant # "scanner" /\ rubric.isArray)
    => /\ Len(domResults) = Len(VisitedChecks(rubric.items))
       /\ \A k \in 1..Len(domResults) : domResults[k].key \in DomCheckKeys

\* C24: the report is written at most once per run, exactly once by a run
\* that returns, and only when every discovered student has its record
\* (flagged, judged or failed), no student is being rendered or judged, and
\* the browser has been closed.
C24_ReportWrittenOnceAtEnd ==
    /\ report.writes <= 1
    /\ report.written <=> report.writes = 1
    /\ pc = "returned" => report.written
    /\ report.written =>
          /\ Len(results) = Len(students)
          /\ idx = Len(students) + 1
          /\ local = NoLocal
          /\ browser = "closed"
          /\ pages = {}
          /\ pc \in {"returned", "responded"}
C24_Witness ==
    /\ report.writes = 1
    /\ browser = "closed"
    /\ Cardinality(acquired) = 2
    /\ \E k \in 1..Len(results) : IsJudgedAt(results, k)
    /\ \E k \in 1..Len(results) : IsFailedAt(results, k)

\* C25: with two /evaluate requests in flight, each run discovers and
\* reports only the students of the repository its own request names, and
\* the report a run has written stays the report of that run.
RepoNames(q) == {RepoListing(q)[i].name : i \in 1..Len(RepoListing(q))}
C25_RunsDoNotInterfere ==
    \A q \in DOMAIN runs :
       /\ \A k \in 1..Len(runs[q].students) : runs[q].students[k].name \in RepoNames(q)
       /\ \A k \in 1..Len(runs[q].results) : runs[q].results[k].name \in RepoNames(q)
       /\ runs[q].answered = 200 => report.content = JsonRoundTrip(runs[q].results)

\* C26: when a run has ended, by returning or by throwing, the browser it
\* launched is closed and no page is open, neither a student's page nor the
\* page of the reference design.
RunEnded == pc \in {"returned", "rejected", "responded"}
C26_BrowserClosedWhenRunEnds ==
    (RunEnded /\ browser # "none") => (browser = "closed" /\ pages = {})

\* C27: if every awaited call eventually returns or throws, a run whose
\* set-up succeeded (the loop is about to take the first student) eventually
\* reaches the end of the student list and writes the report, whatever fails
\* while a student is processed; the only other way for it to end is a throw
\* of browser.close() or of the write itself, after the last student.
SetupSucceeded == pc = "loop" /\ idx = 1 /\ acquired = {} /\ results = <<>>
C27_RunReachesReport ==
    SetupSucceeded ~> (report.written \/ (thrown.is /\ ~RejectedInLoop))

\* C28: when cloneGitRepo fails, students_project is as it was before the
\* call: what a previous acquisition put there is neither removed nor
\* replaced.
C28_FailedCloneLeavesRoot ==
    [][(pc = "start" /\ pc' = "rejected") => student_root' = student_root]_vars

\* C29: two folders of one root with distinct names never get the same
\* screenshot path, no screenshot path is that of the reference design
\* (expected.png), and the two are never served under the same routing key.
C29_DistinctNamesDistinctArtifacts ==
    (call.fn = "artifactPaths" /\ call.done)
    => /\ call.paths[1] # call.paths[2]
       /\ call.paths[1] # EXPECTED_PATH
       /\ call.paths[2] # EXPECTED_PATH
       /\ call.routes[1] # call.routes[2]
       /\ call.keys[1] # call.keys[2]

====
